---- MODULE Spec2Model ----
(***************************************************************************)
(* Model of custom_components/plant: the PlantDevice entity (plant.py),    *)
(* its threshold evaluation in PlantDevice.update and the aggregate state  *)
(* it derives.                                                             *)
(*                                                                         *)
(* Home Assistant states are strings.  A reading is the string the state   *)
(* machine holds for a sensor entity; float() is modelled by Float, which  *)
(* parses the decimal numerals of Numerals and fails on anything else.     *)
(***************************************************************************)
EXTENDS Integers, Sequences, FiniteSets, TLC

\* ---------------------------------------------------------------- bounds
\* Readings, thresholds and accumulated values range over 0..MaxVal.
MaxVal == 2

\* ------------------------------------------------------------- constants
None == "None"
STATE_OK == "ok"
STATE_PROBLEM == "problem"
STATE_UNAVAILABLE == "unavailable"
STATE_UNKNOWN == "unknown"
STATE_HIGH == "high"
STATE_LOW == "low"

ATTR_MOISTURE == "moisture"
ATTR_CONDUCTIVITY == "conductivity"
ATTR_TEMPERATURE == "temperature"
ATTR_HUMIDITY == "humidity"
ATTR_ILLUMINANCE == "illuminance"
ATTR_DLI == "dli"

\* The four metrics checked against both min and max.
GeneralMetrics == {ATTR_MOISTURE, ATTR_CONDUCTIVITY, ATTR_TEMPERATURE, ATTR_HUMIDITY}
\* The metrics read through a meter entity (PlantDevice.meter_entities).
Meters == GeneralMetrics \cup {ATTR_ILLUMINANCE}
Metrics == Meters \cup {ATTR_DLI}

\* The order in which update() goes through the metrics.
UpdateOrder ==
    <<ATTR_MOISTURE, ATTR_CONDUCTIVITY, ATTR_TEMPERATURE, ATTR_HUMIDITY,
      ATTR_ILLUMINANCE, ATTR_DLI>>

\* ------------------------------------------------------- float() parsing
Numerals == <<"0", "1", "2", "3", "4", "5", "6", "7", "8", "9">>
Str(n) == Numerals[n + 1]
\* A present value that float() rejects (ValueError).
Malformed == "n/a"
Parseable(s) == \E n \in 0..(Len(Numerals) - 1) : Numerals[n + 1] = s
Float(s) == CHOOSE n \in 0..(Len(Numerals) - 1) : Numerals[n + 1] = s

Values == 0..MaxVal
NumericStates == {Str(n) : n \in Values}
\* What hass.states.get(entity_id).state can be for an entity that has a
\* state object; getattr(..., "state", None) gives None when it has none.
EntityStates == NumericStates \cup {STATE_UNKNOWN, STATE_UNAVAILABLE, Malformed}
\* last_period of the DLI sensor's attributes; None stands for a missing key.
LastPeriods == NumericStates \cup {None}
Flags == {None, "True", "False"}
Statuses == {None, STATE_OK, STATE_LOW, STATE_HIGH}

\* ------------------------------------------------------------------ state
VARIABLES
    sensor,          \* sensor[m]: self.sensor_<m> is not None
    min_threshold,   \* self.min_<m>: None, or the state of the threshold entity
    max_threshold,   \* self.max_<m>: None, or the state of the threshold entity
    dli,             \* self.dli: entity is FALSE for None, else its value and last_period
    plant_complete,  \* self.plant_complete
    device_id,       \* self._device_id
    status,          \* status[m]: self.<m>_status
    attr_state,      \* self._attr_state, the aggregate state
    states,          \* hass.states: the state string of each meter entity, or None
    options,         \* self._config.options: the <m>_trigger flags, None when unset
    info,            \* entity_picture, species and the calculation entities
    external,        \* external[m]: the external sensor the meter of m is bound to
    hass_data,       \* hass.data: the domain, the entry's plant and its meters
    hass,            \* hass.services and the state of the config entries
    other,           \* the fields of a second PlantDevice
    last             \* the last operation and, for update(), how the pass went

vars == <<sensor, min_threshold, max_threshold, dli, plant_complete, device_id,
          status, attr_state, states, options, info, external, hass_data,
          hass, other, last>>

\* What the evaluation and its inputs leave alone.
hostvars == <<info, external, hass_data, hass, other>>

\* A DLI sensor entity: native_value (its state is derived from it) and the
\* last_period attribute of the utility meter.
DliValues == NumericStates \cup {STATE_UNKNOWN, STATE_UNAVAILABLE}

\* last before any call, and after a change of the environment.
NoCall == [op |-> "none", raised |-> FALSE, known_state |-> FALSE, classified |-> {}]
Event == [op |-> "event", raised |-> FALSE, known_state |-> FALSE, classified |-> {}]

\* Mutant: the stored option is ignored and every trigger counts as enabled.
TriggerAlways(m) == TRUE

\* Mutant: a trigger with no stored option counts as disabled.
TriggerDefaultFalse(m) == options[m] = "True"

\* ------------------------------------------------------ trigger properties
\* self._config.options.get(FLOW_<M>_TRIGGER, True)
Trigger(m) == IF options[m] = None THEN TRUE ELSE options[m] = "True"

\* ------------------------------------------------------------ update()
\* Mutant: a reading that is not a number counts as absent.
PresentNumeric(v) ==
    v /= None /\ v /= STATE_UNKNOWN /\ v /= STATE_UNAVAILABLE /\ Parseable(v)

\* The test every meter reading goes through before it is used.
Present(v) == v /= None /\ v /= STATE_UNKNOWN /\ v /= STATE_UNAVAILABLE

\* Mutant: the reading is taken from the meter of the other plant.
ReadingOfOther(m) == other.states[m]

\* getattr(self._hass.states.get(self.sensor_<m>.entity_id), "state", None)
Reading(m) == states[m]

\* Mutant: a value equal to min is low.
IsLowOrEqual(v, lo) == v <= lo

\* float(value) < float(self.min_<m>.state)
IsLow(v, lo) == v < lo

\* float(value) > float(self.max_<m>.state)
IsHigh(v, hi) == v > hi

\* float(self.dli.extra_state_attributes["last_period"]) > 0
DliPositive(lp) == lp > 0

\* SensorEntity.state of the DLI sensor: its native value, None when it has none.
DliState == dli.native_value

\* The condition under which the DLI block runs.
DliKnown ==
    /\ dli.entity
    /\ dli.native_value /= STATE_UNKNOWN
    /\ dli.native_value /= STATE_UNAVAILABLE
    /\ DliState /= None

\* Mutant: every pass starts from statuses reset to None.
StartPassReset ==
    [status |-> [m \in Metrics |-> None], new_state |-> STATE_OK,
     known_state |-> FALSE, raised |-> FALSE, classified |-> {}]

\* The locals of one pass of update(): the statuses written so far, new_state,
\* known_state, whether an exception ended the pass, and the metrics whose
\* status was assigned.
StartPass ==
    [status |-> status, new_state |-> STATE_OK, known_state |-> FALSE,
     raised |-> FALSE, classified |-> {}]

Raise(acc) == [acc EXCEPT !.known_state = TRUE, !.raised = TRUE]

\* self.<m>_status = st, and new_state = STATE_PROBLEM on a breach that triggers.
Assign(acc, m, st) ==
    [acc EXCEPT !.status[m] = st,
                !.known_state = TRUE,
                !.classified = @ \cup {m},
                !.new_state = IF st /= STATE_OK /\ Trigger(m) THEN STATE_PROBLEM ELSE @]

\* Mutant: a general metric without a value is marked unknown.
CheckGeneralMarkingAbsent(acc, m) ==
    IF ~sensor[m] \/ ~Present(Reading(m)) THEN [acc EXCEPT !.status[m] = STATE_UNKNOWN]
    ELSE IF ~Parseable(Reading(m)) THEN Raise(acc)
    ELSE IF ~Parseable(min_threshold[m]) THEN Raise(acc)
    ELSE IF IsLow(Float(Reading(m)), Float(min_threshold[m])) THEN Assign(acc, m, STATE_LOW)
    ELSE IF ~Parseable(max_threshold[m]) THEN Raise(acc)
    ELSE IF IsHigh(Float(Reading(m)), Float(max_threshold[m])) THEN Assign(acc, m, STATE_HIGH)
    ELSE Assign(acc, m, STATE_OK)

\* One of the four general blocks. float(reading) is evaluated first, then
\* self.min_<m>.state; self.max_<m>.state only when the value is not low.
CheckGeneral(acc, m) ==
    IF ~sensor[m] \/ ~Present(Reading(m)) THEN acc
    ELSE IF ~Parseable(Reading(m)) THEN Raise(acc)
    ELSE IF ~Parseable(min_threshold[m]) THEN Raise(acc)
    ELSE IF IsLow(Float(Reading(m)), Float(min_threshold[m])) THEN Assign(acc, m, STATE_LOW)
    ELSE IF ~Parseable(max_threshold[m]) THEN Raise(acc)
    ELSE IF IsHigh(Float(Reading(m)), Float(max_threshold[m])) THEN Assign(acc, m, STATE_HIGH)
    ELSE Assign(acc, m, STATE_OK)

\* Mutant: illuminance goes through the block of the general metrics.
CheckIlluminanceAsGeneral(acc, m) == CheckGeneral(acc, m)

\* The illuminance block: only max is read.
CheckIlluminance(acc, m) ==
    IF ~sensor[m] \/ ~Present(Reading(m)) THEN acc
    ELSE IF ~Parseable(Reading(m)) THEN Raise(acc)
    ELSE IF ~Parseable(max_threshold[m]) THEN Raise(acc)
    ELSE IF IsHigh(Float(Reading(m)), Float(max_threshold[m])) THEN Assign(acc, m, STATE_HIGH)
    ELSE Assign(acc, m, STATE_OK)

\* Mutant: DLI is classified from the sensor's own value, not from last_period.
CheckDliInstant(acc, m) ==
    IF ~DliKnown THEN acc
    ELSE IF ~Parseable(dli.native_value) THEN Raise(acc)
    ELSE IF ~DliPositive(Float(dli.native_value)) THEN Assign(acc, m, STATE_OK)
    ELSE IF ~Parseable(min_threshold[m]) THEN Raise(acc)
    ELSE IF IsLow(Float(dli.native_value), Float(min_threshold[m])) THEN Assign(acc, m, STATE_LOW)
    ELSE IF ~Parseable(max_threshold[m]) THEN Raise(acc)
    ELSE IF IsHigh(Float(dli.native_value), Float(max_threshold[m])) THEN Assign(acc, m, STATE_HIGH)
    ELSE Assign(acc, m, STATE_OK)

\* The DLI block. A threshold is read only when last_period > 0 (short-circuit
\* and); a missing last_period or threshold entity raises.
CheckDli(acc, m) ==
    IF ~DliKnown THEN acc
    ELSE IF ~Parseable(dli.last_period) THEN Raise(acc)
    ELSE IF ~DliPositive(Float(dli.last_period)) THEN Assign(acc, m, STATE_OK)
    ELSE IF ~Parseable(min_threshold[m]) THEN Raise(acc)
    ELSE IF IsLow(Float(dli.last_period), Float(min_threshold[m])) THEN Assign(acc, m, STATE_LOW)
    ELSE IF ~Parseable(max_threshold[m]) THEN Raise(acc)
    ELSE IF IsHigh(Float(dli.last_period), Float(max_threshold[m])) THEN Assign(acc, m, STATE_HIGH)
    ELSE Assign(acc, m, STATE_OK)

Check(acc, m) ==
    IF acc.raised THEN acc
    ELSE IF m \in GeneralMetrics THEN CheckGeneral(acc, m)
    ELSE IF m = ATTR_ILLUMINANCE THEN CheckIlluminance(acc, m)
    ELSE CheckDli(acc, m)

\* The blocks of update() run in the order given.
RECURSIVE Pass(_, _)
Pass(acc, order) ==
    IF order = <<>> THEN acc ELSE Pass(Check(acc, Head(order)), Tail(order))

\* Mutant: the aggregate is derived from every stored status, stale ones too.
AggregateStored(acc) ==
    IF ~acc.known_state THEN STATE_UNKNOWN
    ELSE IF \E m \in Metrics : Trigger(m) /\ acc.status[m] \in {STATE_LOW, STATE_HIGH}
         THEN STATE_PROBLEM
    ELSE STATE_OK

\* Mutant: a breach counts only when the status was the same before the pass.
AggregateDebounced(acc) ==
    IF ~acc.known_state THEN STATE_UNKNOWN
    ELSE IF \E m \in acc.classified :
                /\ Trigger(m)
                /\ acc.status[m] \in {STATE_LOW, STATE_HIGH}
                /\ status[m] = acc.status[m]
         THEN STATE_PROBLEM
    ELSE STATE_OK

\* Mutant: known_state is not consulted.
AggregateNoUnknown(acc) == acc.new_state

\* if not known_state: new_state = STATE_UNKNOWN
Aggregate(acc) == IF ~acc.known_state THEN STATE_UNKNOWN ELSE acc.new_state

\* What a call of update() leaves behind when its blocks run in the order
\* given: the six statuses, and _attr_state, which is assigned only when no
\* block raised.
PassResult(order) ==
    LET acc == Pass(StartPass, order) IN
    [status |-> acc.status,
     attr_state |-> IF acc.raised THEN attr_state ELSE Aggregate(acc),
     raised |-> acc.raised]

\* update_registry(): the device id is looked up once.
UpdateRegistry == IF device_id = None THEN "device" ELSE device_id

\* PlantDevice.update. An exception leaves the statuses assigned before it and
\* skips the assignment of _attr_state and update_registry().
Update ==
    LET acc == Pass(StartPass, UpdateOrder) IN
    /\ status' = acc.status
    /\ attr_state' = IF acc.raised THEN attr_state ELSE Aggregate(acc)
    /\ device_id' = IF acc.raised THEN device_id ELSE UpdateRegistry
    /\ last' = [op |-> "update", raised |-> acc.raised,
                known_state |-> acc.known_state, classified |-> acc.classified]
    /\ UNCHANGED <<hostvars, sensor, min_threshold, max_threshold, dli, plant_complete,
                   states, options>>

\* ------------------------------------------------------------ environment
\* The metrics that have a data source: meter entities with a state object in
\* the state machine, and the DLI sensor when it has a value.
Live == {m \in Meters : states[m] /= None} \cup
        (IF dli.entity /\ dli.native_value /= None THEN {ATTR_DLI} ELSE {})

\* The state machine records a new state for the entity of meter m.
SetState(m, v) ==
    /\ states[m] /= None
    /\ states' = [states EXCEPT ![m] = v]
    /\ last' = Event
    /\ UNCHANGED <<hostvars, sensor, min_threshold, max_threshold, dli, plant_complete,
                   device_id, status, attr_state, options>>

\* The DLI sensor gets a new value or a new last_period.
SetDli(v, lp) ==
    /\ ATTR_DLI \in Live
    /\ dli' = [dli EXCEPT !.native_value = v, !.last_period = lp]
    /\ last' = Event
    /\ UNCHANGED <<hostvars, sensor, min_threshold, max_threshold, plant_complete,
                   device_id, status, attr_state, states, options>>

\* The options flow stores a trigger flag.
SetOption(m, f) ==
    /\ m \in Live
    /\ options' = [options EXCEPT ![m] = f]
    /\ last' = Event
    /\ UNCHANGED <<hostvars, sensor, min_threshold, max_threshold, dli, plant_complete,
                   device_id, status, attr_state, states>>

\* A threshold entity gets a new value.
SetMin(m, v) ==
    /\ m \in Live
    /\ min_threshold[m] /= None
    /\ min_threshold' = [min_threshold EXCEPT ![m] = v]
    /\ last' = Event
    /\ UNCHANGED <<hostvars, sensor, max_threshold, dli, plant_complete,
                   device_id, status, attr_state, states, options>>

SetMax(m, v) ==
    /\ m \in Live
    /\ max_threshold[m] /= None
    /\ max_threshold' = [max_threshold EXCEPT ![m] = v]
    /\ last' = Event
    /\ UNCHANGED <<hostvars, sensor, min_threshold, dli, plant_complete,
                   device_id, status, attr_state, states, options>>

\* ------------------------------------------------- attaching the entities
\* last after a call of a method other than update().
Called(op) == [op |-> op, raised |-> FALSE, known_state |-> FALSE, classified |-> {}]

\* A dict with no key, as returned for a plant that is not complete.
EmptyDict == [k \in {} |-> None]

\* The arguments the methods are called with: every one is Entity | None.
\* add_thresholds: the metrics whose min entity is given, and those whose max is.
ThresholdArgs ==
    {<<Metrics, Metrics>>, <<{}, {}>>, <<Metrics \ {ATTR_MOISTURE}, Metrics>>}
\* add_sensors: the metrics whose meter entity is given.
SensorArgs == {Meters, {}, {ATTR_MOISTURE}}
\* add_dli: no entity, or a DLI sensor that has no accumulated value yet.
NoDli == [entity |-> FALSE, native_value |-> None, last_period |-> None]
DliArgs == {NoDli, [entity |-> TRUE, native_value |-> STATE_UNKNOWN, last_period |-> Str(0)]}

\* PlantDevice.add_image
AddImage(image_url) ==
    /\ hass_data.plant
    /\ info' = [info EXCEPT !.picture = image_url]
    /\ last' = Called("add_image")
    /\ UNCHANGED <<sensor, min_threshold, max_threshold, dli, plant_complete, device_id,
                   status, attr_state, states, options, external, hass_data, hass, other>>

\* PlantDevice.add_species
AddSpecies(species) ==
    /\ hass_data.plant
    /\ info' = [info EXCEPT !.species = species]
    /\ last' = Called("add_species")
    /\ UNCHANGED <<sensor, min_threshold, max_threshold, dli, plant_complete, device_id,
                   status, attr_state, states, options, external, hass_data, hass, other>>

\* Mutant: attaching the thresholds resets what was evaluated before.
AddThresholdsReset(mins, maxs) ==
    /\ hass_data.plant
    /\ min_threshold' = [m \in Metrics |-> IF m \in mins THEN Str(1) ELSE None]
    /\ max_threshold' = [m \in Metrics |-> IF m \in maxs THEN Str(1) ELSE None]
    /\ status' = [m \in Metrics |-> None]
    /\ attr_state' = STATE_UNKNOWN
    /\ last' = Called("add_thresholds")
    /\ UNCHANGED <<sensor, dli, plant_complete, device_id,
                   states, options, info, external, hass_data, hass, other>>

\* PlantDevice.add_thresholds. A threshold entity that is given has the state 1.
AddThresholds(mins, maxs) ==
    /\ hass_data.plant
    /\ min_threshold' = [m \in Metrics |-> IF m \in mins THEN Str(1) ELSE None]
    /\ max_threshold' = [m \in Metrics |-> IF m \in maxs THEN Str(1) ELSE None]
    /\ last' = Called("add_thresholds")
    /\ UNCHANGED <<sensor, dli, plant_complete, device_id, status, attr_state,
                   states, options, info, external, hass_data, hass, other>>

\* PlantDevice.add_sensors
AddSensors(given) ==
    /\ hass_data.plant
    /\ sensor' = [m \in Meters |-> m \in given]
    /\ last' = Called("add_sensors")
    /\ UNCHANGED <<min_threshold, max_threshold, dli, plant_complete, device_id,
                   status, attr_state, states, options, info, external, hass_data, hass, other>>

\* Mutant: the plant is complete only while a DLI sensor is attached.
AddDliWhenGiven(d) ==
    /\ hass_data.plant
    /\ dli' = d
    /\ plant_complete' = d.entity
    /\ last' = Called("add_dli")
    /\ UNCHANGED <<sensor, min_threshold, max_threshold, device_id, status, attr_state,
                   states, options, info, external, hass_data, hass, other>>

\* PlantDevice.add_dli: the plant is complete from here on, whatever was attached.
AddDli(d) ==
    /\ hass_data.plant
    /\ dli' = d
    /\ plant_complete' = TRUE
    /\ last' = Called("add_dli")
    /\ UNCHANGED <<sensor, min_threshold, max_threshold, device_id, status, attr_state,
                   states, options, info, external, hass_data, hass, other>>

\* PlantDevice.add_calculations
AddCalculations ==
    /\ hass_data.plant
    /\ info' = [info EXCEPT !.calculations = TRUE]
    /\ last' = Called("add_calculations")
    /\ UNCHANGED <<sensor, min_threshold, max_threshold, dli, plant_complete, device_id,
                   status, attr_state, states, options, external, hass_data, hass, other>>

\* The sensor platform adds the meter entity of m: it is listed under the
\* entry's ATTR_SENSORS and the state machine holds a state for it.
MeterAdded(m) ==
    /\ hass_data.plant
    /\ states[m] = None
    /\ states' = [states EXCEPT ![m] = STATE_UNKNOWN]
    /\ hass_data' = [hass_data EXCEPT !.sensors = @ \cup {m}]
    /\ last' = Event
    /\ UNCHANGED <<sensor, min_threshold, max_threshold, dli, plant_complete, device_id,
                   status, attr_state, options, info, external, hass, other>>

\* --------------------------------------------- attributes and query surface
\* Mutant: the plant counts as ready as soon as its meters are attached.
NotReadyWithoutSensors == ~plant_complete /\ \A m \in Meters : ~sensor[m]

\* if not self.plant_complete
NotReady == ~plant_complete

\* PlantDevice.extra_state_attributes
ExtraStateAttributes ==
    IF NotReady THEN EmptyDict
    ELSE [species |-> "display_species", status |-> status,
          species_original |-> info.species]

\* x or STATE_UNAVAILABLE: the values Python counts as false.
Falsy(v) == v = None \/ v = ""

\* self.sensor_<m>.state: the state the meter entity writes to the state machine.
SensorState(m) == states[m]

\* The first exception websocket_info runs into: AttributeError on an entity
\* that is None, ValueError on a DLI state float() rejects.
WebsocketError ==
    IF \/ \E m \in Metrics : min_threshold[m] = None \/ max_threshold[m] = None
       \/ \E m \in Meters : ~sensor[m]
       \/ ~dli.entity
    THEN "AttributeError"
    ELSE IF ~Falsy(DliState) /\ DliState /= STATE_UNKNOWN /\ ~Parseable(DliState)
    THEN "ValueError"
    ELSE None

\* The entry of one metric in the response.
MetricInfo(m) ==
    [max |-> max_threshold[m],
     min |-> min_threshold[m],
     current |-> IF m \in Meters
                 THEN (IF Falsy(SensorState(m)) THEN STATE_UNAVAILABLE ELSE SensorState(m))
                 ELSE (IF ~Falsy(DliState) /\ DliState /= STATE_UNKNOWN
                       THEN Float(DliState) ELSE STATE_UNAVAILABLE),
     icon |-> <<"icon", m>>,
     unit_of_measurement |-> <<"unit_of_measurement", m>>,
     sensor |-> <<"entity_id", m>>]

\* PlantDevice.websocket_info: the response, or the exception it raises.
WebsocketInfo ==
    IF NotReady THEN [error |-> None, response |-> EmptyDict]
    ELSE IF WebsocketError /= None THEN [error |-> WebsocketError, response |-> EmptyDict]
    ELSE [error |-> None, response |-> [m \in Metrics |-> MetricInfo(m)]]

\* self.entity_id of the plant, and an id no plant has.
PlantEntityId == "plant.p"
EntityIds == {PlantEntityId, "plant.q"}

\* What goes out on the connection: send_error, send_result, or nothing.
SendError(code) == [type |-> "error", code |-> code, result |-> EmptyDict]
SendResult(r) == [type |-> "result", code |-> None, result |-> r]
NoReply == [type |-> "none", code |-> None, result |-> EmptyDict]

\* Mutant: the first plant found answers for every entity id.
MatchesAny(entity_id) == TRUE

\* plant_entity.entity_id == msg["entity_id"]
Matches(entity_id) == entity_id = PlantEntityId

\* ws_get_info. A ValueError of websocket_info is logged and nothing is sent;
\* any other exception leaves the handler.
WsGetInfo(entity_id) ==
    /\ last' =
        [Called("ws_get_info") EXCEPT
            !.raised = hass_data.domain /\ hass_data.plant /\ Matches(entity_id)
                       /\ WebsocketInfo.error = "AttributeError"]
        @@ [entity_id |-> entity_id,
            reply |-> IF ~hass_data.domain THEN SendError("domain_not_found")
                      ELSE IF hass_data.plant /\ Matches(entity_id)
                           THEN (IF WebsocketInfo.error = None
                                 THEN SendResult(WebsocketInfo.response) ELSE NoReply)
                      ELSE SendError("entity_not_found")]
    /\ UNCHANGED <<sensor, min_threshold, max_threshold, dli, plant_complete, device_id,
                   status, attr_state, states, options, info, external, hass_data, hass, other>>

\* ------------------------------------------------------ replace_sensor
\* Entity ids a caller of the service may name as new_sensor, with the part up
\* to and including the first dot.
DomainPrefix ==
    ("sensor.ext" :> "sensor.") @@ ("sensor.gone" :> "sensor.") @@ ("light.ext" :> "light.")
\* Mutant: every entity id passes the test of the prefix.
StartsWithAnything(id) == id \in DOMAIN DomainPrefix
\* new_sensor.startswith("sensor.")
StartsWithSensor(id) == DomainPrefix[id] = "sensor."
\* The ones the state machine holds a state for.
ExistingEntities == {"sensor.ext", "light.ext"}
NewSensors == {None, "", "sensor.ext", "sensor.gone", "light.ext"}
\* meter_entity: the meter of a metric, or an entity that is no meter.
MeterEntities == Meters \cup {"sensor.other"}

\* replace_sensor: the meter named is rebound when it is listed under a plant,
\* new_sensor is empty or an existing sensor, and the meter has a state.
ReplaceSensor(meter_entity, new_sensor) ==
    /\ hass.service
    /\ external' =
        IF meter_entity \notin hass_data.sensors THEN external
        ELSE IF ~Falsy(new_sensor) /\ ~StartsWithSensor(new_sensor) THEN external
        ELSE IF states[meter_entity] = None THEN external
        ELSE IF ~Falsy(new_sensor) /\ new_sensor \notin ExistingEntities THEN external
        ELSE [external EXCEPT ![meter_entity] = IF Falsy(new_sensor) THEN None ELSE new_sensor]
    /\ last' = Called("replace_sensor")
                @@ [meter_entity |-> meter_entity, new_sensor |-> new_sensor]
    /\ UNCHANGED <<sensor, min_threshold, max_threshold, dli, plant_complete, device_id,
                   status, attr_state, states, options, info, hass_data, hass, other>>

\* ------------------------------------------------------ config entries
\* The entry of the plant, the entry of a second plant, and an entry whose
\* data has no FLOW_PLANT_INFO.
PlantEntry == "entry_p"
OtherEntry == "entry_o"
BareEntries == {"entry_x", "entry_y"}
Entries == {PlantEntry, OtherEntry} \cup BareEntries

\* A PlantDevice as __init__ leaves it.
FreshDevice ==
    [sensor |-> [m \in Meters |-> FALSE],
     min_threshold |-> [m \in Metrics |-> None],
     max_threshold |-> [m \in Metrics |-> None],
     dli |-> NoDli,
     plant_complete |-> FALSE,
     device_id |-> None,
     status |-> [m \in Metrics |-> None],
     attr_state |-> STATE_UNKNOWN,
     states |-> [m \in Meters |-> None],
     options |-> [m \in Metrics |-> None],
     info |-> [picture |-> None, species |-> "species", calculations |-> FALSE],
     external |-> [m \in Meters |-> None]]

\* The entries that have a dict under hass.data[DOMAIN].
DataEntries ==
    IF ~hass_data.domain THEN {}
    ELSE (IF hass_data.plant THEN {PlantEntry} ELSE {}) \cup hass_data.others

\* async_setup_entry. An entry without FLOW_PLANT_INFO only creates the
\* domain's dict. For a plant entry the component is stored, the plant platform
\* constructs the PlantDevice and stores it, and the name plant_entities, which
\* is bound nowhere, raises NameError before the platforms are forwarded and
\* the service is registered. async_added_to_hass may have set the device id.
AsyncSetupEntry(entry) ==
    /\ hass.entry_state[entry] \in {"not_loaded", "setup_error"}
    /\ hass' = [hass EXCEPT !.entry_state[entry] =
                    IF entry \in BareEntries THEN "loaded" ELSE "setup_error"]
    /\ hass_data' = [hass_data EXCEPT
                        !.domain = TRUE,
                        !.plant = IF entry = PlantEntry THEN TRUE ELSE @,
                        !.others = IF entry = OtherEntry THEN @ \cup {entry} ELSE @]
    /\ IF entry = PlantEntry
       THEN /\ sensor' = FreshDevice.sensor
            /\ min_threshold' = FreshDevice.min_threshold
            /\ max_threshold' = FreshDevice.max_threshold
            /\ dli' = FreshDevice.dli
            /\ plant_complete' = FreshDevice.plant_complete
            /\ device_id' \in {None, "device"}
            /\ status' = FreshDevice.status
            /\ attr_state' = FreshDevice.attr_state
            /\ info' = [FreshDevice.info EXCEPT !.picture = info.picture]
       ELSE UNCHANGED <<sensor, min_threshold, max_threshold, dli, plant_complete,
                        device_id, status, attr_state, info>>
    /\ IF entry = OtherEntry
       THEN \E id \in {None, "device_o"} :
                other' = [FreshDevice EXCEPT !.device_id = id,
                                             !.options = other.options,
                                             !.states = other.states,
                                             !.external = other.external,
                                             !.info.picture = other.info.picture]
       ELSE UNCHANGED other
    /\ last' = [Called("async_setup_entry") EXCEPT !.raised = entry \notin BareEntries]
                @@ [entry |-> entry]
    /\ UNCHANGED <<states, options, external>>

\* async_unload_entry, called for a loaded entry. The lookup of the entry's
\* component raises KeyError when the entry has no dict. When the component and
\* the platforms unload, the entry's dict is removed, and with the last dict
\* the service and the domain's dict; no dict in the model is empty.
AsyncUnloadEntry(entry, unload_ok) ==
    /\ hass.entry_state[entry] = "loaded"
    /\ LET raised == entry \notin DataEntries
           remaining == DataEntries \ {entry}
       IN /\ IF raised \/ ~unload_ok
             THEN UNCHANGED <<hass_data, hass>>
             ELSE /\ hass_data' =
                        [domain |-> remaining /= {},
                         plant |-> PlantEntry \in remaining,
                         sensors |-> IF PlantEntry \in remaining
                                     THEN hass_data.sensors ELSE {},
                         others |-> hass_data.others \cap remaining]
                  /\ hass' = [service |-> IF remaining = {} THEN FALSE ELSE hass.service,
                              entry_state |-> [hass.entry_state EXCEPT ![entry] = "not_loaded"]]
          /\ last' = [Called("async_unload_entry") EXCEPT !.raised = raised]
                        @@ [entry |-> entry, unload_ok |-> unload_ok]
    /\ UNCHANGED <<sensor, min_threshold, max_threshold, dli, plant_complete, device_id,
                   status, attr_state, states, options, info, external, other>>

\* ------------------------------------------------------ a second plant
\* The fields of the plant the calls are made on.
ThisDevice ==
    [sensor |-> sensor, min_threshold |-> min_threshold, max_threshold |-> max_threshold,
     dli |-> dli, plant_complete |-> plant_complete, device_id |-> device_id,
     status |-> status, attr_state |-> attr_state, states |-> states,
     options |-> options, info |-> info, external |-> external]

\* The next calls are made on the other PlantDevice: self is bound to it, and
\* the plant the calls were made on becomes the other one.
SwitchPlant ==
    /\ other' = ThisDevice
    /\ sensor' = other.sensor
    /\ min_threshold' = other.min_threshold
    /\ max_threshold' = other.max_threshold
    /\ dli' = other.dli
    /\ plant_complete' = other.plant_complete
    /\ device_id' = other.device_id
    /\ status' = other.status
    /\ attr_state' = other.attr_state
    /\ states' = other.states
    /\ options' = other.options
    /\ info' = other.info
    /\ external' = other.external
    /\ last' = Called("self")
    /\ UNCHANGED <<hass_data, hass>>

\* hass.services and the config entries once the entry of the plant is loaded.
PlantLoaded ==
    [service |-> TRUE,
     entry_state |-> [e \in Entries |-> IF e = PlantEntry THEN "loaded" ELSE "not_loaded"]]

\* ---------------------------------------------------------- specification
\* A plant whose platforms are set up (add_thresholds, add_sensors, add_dli
\* have run and the entity is added to hass) and whose metrics in L have a
\* data source. Thresholds start at 1, no trigger option is stored.
InitLive(L) ==
    /\ sensor = [m \in Meters |-> TRUE]
    /\ min_threshold = [m \in Metrics |-> Str(1)]
    /\ max_threshold = [m \in Metrics |-> Str(1)]
    /\ dli = [entity |-> TRUE,
              native_value |-> IF ATTR_DLI \in L THEN STATE_UNKNOWN ELSE None,
              last_period |-> Str(0)]
    /\ plant_complete = TRUE
    /\ device_id = "device"
    /\ status = [m \in Metrics |-> None]
    /\ attr_state = STATE_UNKNOWN
    /\ states = [m \in Meters |-> IF m \in L THEN STATE_UNKNOWN ELSE None]
    /\ options = [m \in Metrics |-> None]
    /\ info = [picture |-> None, species |-> "species", calculations |-> TRUE]
    /\ external = [m \in Meters |-> None]
    /\ hass_data = [domain |-> TRUE, plant |-> TRUE, sensors |-> Meters, others |-> {}]
    /\ hass = PlantLoaded
    /\ last = NoCall

\* A plant with at most two data sources, whose readings, DLI sensor and
\* trigger options change between calls of update().  The DLI sensor's own
\* value is either unavailable or a number; what is classified is last_period.
Init == other = FreshDevice /\ \E m1 \in Metrics, m2 \in Metrics : InitLive({m1, m2})

Next ==
    \/ Update
    \/ \E m \in Meters, v \in NumericStates \cup {STATE_UNAVAILABLE, Malformed} :
           SetState(m, v)
    \/ \E v \in {STATE_UNAVAILABLE, Str(0)}, lp \in LastPeriods : SetDli(v, lp)
    \/ \E m \in Metrics, f \in Flags : SetOption(m, f)

Spec == Init /\ [][Next]_vars

\* A plant with one data source, whose thresholds change too.
InitOne == other = FreshDevice /\ \E m \in Metrics : InitLive({m})

NextOne ==
    \/ Update
    \/ \E m \in Meters, v \in EntityStates : SetState(m, v)
    \/ \E v \in DliValues, lp \in LastPeriods : SetDli(v, lp)
    \/ \E m \in Metrics, f \in Flags : SetOption(m, f)
    \/ \E m \in Metrics, v \in NumericStates : SetMin(m, v)
    \/ \E m \in Metrics, v \in NumericStates : SetMax(m, v)

SpecOne == InitOne /\ [][NextOne]_vars

\* A plant from its construction on: the entities are attached in any order
\* and with any argument while update() runs, the moisture meter and the DLI
\* sensor change, and the plant is queried. The species comes from the config
\* entry and add_species sets it again.
InitLife ==
    /\ sensor = [m \in Meters |-> FALSE]
    /\ min_threshold = [m \in Metrics |-> None]
    /\ max_threshold = [m \in Metrics |-> None]
    /\ dli = NoDli
    /\ plant_complete = FALSE
    /\ device_id = None
    /\ status = [m \in Metrics |-> None]
    /\ attr_state = STATE_UNKNOWN
    /\ states = [m \in Meters |-> None]
    /\ options = [m \in Metrics |-> None]
    /\ info = [picture |-> None, species |-> "species", calculations |-> FALSE]
    /\ external = [m \in Meters |-> None]
    /\ hass_data = [domain |-> TRUE, plant |-> TRUE, sensors |-> {}, others |-> {}]
    /\ hass = PlantLoaded
    /\ other = FreshDevice
    /\ last = NoCall

NextLife ==
    \/ \E a \in ThresholdArgs : AddThresholds(a[1], a[2])
    \/ \E given \in SensorArgs : AddSensors(given)
    \/ \E d \in DliArgs : AddDli(d)
    \/ AddCalculations
    \/ AddImage("image_url")
    \/ AddSpecies("species")
    \/ MeterAdded(ATTR_MOISTURE)
    \/ hass_data.plant /\ Update
    \/ hass_data.plant /\ \E v \in {Str(0), Str(MaxVal), STATE_UNAVAILABLE} :
            SetState(ATTR_MOISTURE, v)
    \/ hass_data.plant /\ \E v \in {Str(MaxVal), STATE_UNAVAILABLE} :
            SetDli(v, Str(MaxVal))
    \/ \E id \in EntityIds : WsGetInfo(id)
    \/ \E meter_entity \in {ATTR_MOISTURE, "sensor.other"}, new_sensor \in {"", "sensor.ext"} :
            ReplaceSensor(meter_entity, new_sensor)
    \/ \E unload_ok \in BOOLEAN : AsyncUnloadEntry(PlantEntry, unload_ok)

SpecLife == InitLife /\ [][NextLife]_vars

\* The handlers of the integration from the start of Home Assistant on: the
\* entries are set up and unloaded, the plant that was constructed is polled
\* and queried.
InitHass ==
    /\ sensor = FreshDevice.sensor
    /\ min_threshold = FreshDevice.min_threshold
    /\ max_threshold = FreshDevice.max_threshold
    /\ dli = FreshDevice.dli
    /\ plant_complete = FreshDevice.plant_complete
    /\ device_id = FreshDevice.device_id
    /\ status = FreshDevice.status
    /\ attr_state = FreshDevice.attr_state
    /\ states = FreshDevice.states
    /\ options = FreshDevice.options
    /\ info = FreshDevice.info
    /\ external = FreshDevice.external
    /\ hass_data = [domain |-> FALSE, plant |-> FALSE, sensors |-> {}, others |-> {}]
    /\ hass = [service |-> FALSE, entry_state |-> [e \in Entries |-> "not_loaded"]]
    /\ other = FreshDevice
    /\ last = NoCall

NextHass ==
    \/ \E entry \in Entries : AsyncSetupEntry(entry)
    \/ \E entry \in Entries, unload_ok \in BOOLEAN : AsyncUnloadEntry(entry, unload_ok)
    \/ \E id \in EntityIds : WsGetInfo(id)
    \/ hass_data.plant /\ Update

SpecHass == InitHass /\ [][NextHass]_vars

\* A plant that is set up, with its service: replace_sensor is called with
\* every meter_entity and new_sensor, and the entry is unloaded.
NextService ==
    \/ \E meter_entity \in MeterEntities, new_sensor \in NewSensors :
            ReplaceSensor(meter_entity, new_sensor)
    \/ \E unload_ok \in BOOLEAN : AsyncUnloadEntry(PlantEntry, unload_ok)
    \/ \E id \in EntityIds : WsGetInfo(id)

SpecService == Init /\ [][NextService]_vars

\* Two plants that are set up, each with a moisture meter: update() runs on
\* either, in any interleaving with the changes of their readings and options.
InitTwo ==
    /\ InitLive({ATTR_MOISTURE})
    /\ other = [FreshDevice EXCEPT
                    !.sensor = [m \in Meters |-> TRUE],
                    !.min_threshold = [m \in Metrics |-> Str(1)],
                    !.max_threshold = [m \in Metrics |-> Str(1)],
                    !.dli = [entity |-> TRUE, native_value |-> None, last_period |-> Str(0)],
                    !.plant_complete = TRUE,
                    !.device_id = "device_o",
                    !.states = [m \in Meters |->
                                   IF m = ATTR_MOISTURE THEN STATE_UNKNOWN ELSE None],
                    !.info.calculations = TRUE]

NextTwo ==
    \/ Update
    \/ SwitchPlant
    \/ \E v \in NumericStates \cup {STATE_UNAVAILABLE} : SetState(ATTR_MOISTURE, v)
    \/ \E f \in {None, "False"} : SetOption(ATTR_MOISTURE, f)

SpecTwo == InitTwo /\ [][NextTwo]_vars

\* ------------------------------------------------------------------ claims
\* The current value of a metric: the meter's state, the DLI sensor's value.
Value(m) == IF m \in Meters THEN states[m] ELSE dli.native_value
\* The metric has no current value: absent, unknown or unavailable.
Absent(m) ==
    \/ IF m \in Meters THEN ~sensor[m] ELSE ~dli.entity
    \/ Value(m) \in {None, STATE_UNKNOWN, STATE_UNAVAILABLE}
\* The trigger flag of a metric; enabled unless an option says otherwise.
Enabled(m) == options[m] /= "False"
Breached(m) == status[m] \in {STATE_LOW, STATE_HIGH}
\* The state right after an update() that returned: what the claims call
\* "after an evaluate". A call that raised is the subject of C10.
Evaluated == last.op = "update" /\ ~last.raised
Num(m) == IF m \in Meters THEN Float(states[m]) ELSE Float(dli.last_period)
Lo(m) == Float(min_threshold[m])
Hi(m) == Float(max_threshold[m])
\* The inputs of a metric are outside what is checked for it.
OutOfBounds(m) ==
    IF m \in GeneralMetrics THEN Num(m) < Lo(m) \/ Num(m) > Hi(m)
    ELSE IF m = ATTR_ILLUMINANCE THEN Num(m) > Hi(m)
    ELSE Num(m) > 0 /\ (Num(m) < Lo(m) \/ Num(m) > Hi(m))

C2_EveryCombination ==
    Evaluated =>
        \A m \in GeneralMetrics : ~Absent(m) =>
            /\ Num(m) < Lo(m) => status[m] = STATE_LOW
            /\ Num(m) > Hi(m) => status[m] = STATE_HIGH
            /\ Lo(m) <= Num(m) /\ Num(m) <= Hi(m) => status[m] = STATE_OK

\* C2 amended: after an evaluate every general metric with a present value is
\* low if value < min, high if value >= min and value > max, ok otherwise.
C2_LowFirst ==
    Evaluated =>
        \A m \in GeneralMetrics : ~Absent(m) =>
            status[m] = IF Num(m) < Lo(m) THEN STATE_LOW
                        ELSE IF Num(m) > Hi(m) THEN STATE_HIGH
                        ELSE STATE_OK

\* A general metric whose value is below min and above max came out low.
C2_Witness ==
    /\ Evaluated
    /\ \E m \in GeneralMetrics :
        ~Absent(m) /\ Num(m) < Lo(m) /\ Num(m) > Hi(m) /\ status[m] = STATE_LOW

\* C3 as stated: when DLI is the only metric with data and its last_period is
\* absent or <= 0, an evaluate that returns has kept DLI out of known_state
\* and the aggregate is unknown.
C3_DliExcluded ==
    /\ Evaluated
    /\ ~Absent(ATTR_DLI)
    /\ \A m \in Meters : Absent(m)
    /\ (dli.last_period = None \/ Float(dli.last_period) <= 0)
    => ~last.known_state /\ attr_state = STATE_UNKNOWN

\* C4: an evaluate leaves the status of every metric whose value is absent,
\* unknown or unavailable as it was, and such metrics do not set known_state:
\* when no metric has a value the aggregate is unknown.
C4_AbsentUnchanged ==
    [][last'.op = "update" =>
        /\ \A m \in Metrics : Absent(m) => status'[m] = status[m]
        /\ (\A m \in Metrics : Absent(m)) =>
                ~last'.known_state /\ attr_state' = STATE_UNKNOWN]_vars

\* After an evaluate that classified another metric, a metric without a value
\* still has the low or high status of an earlier evaluate.
C4_Witness ==
    /\ Evaluated
    /\ \E m \in Metrics, n \in Metrics :
        Absent(m) /\ Breached(m) /\ n \in last.classified

\* The aggregate as a function of the inputs of the evaluate alone.
ExpectedAggregate ==
    IF \A m \in Metrics : Absent(m) THEN STATE_UNKNOWN
    ELSE IF \E m \in Metrics : ~Absent(m) /\ OutOfBounds(m) /\ Enabled(m)
         THEN STATE_PROBLEM
    ELSE STATE_OK

\* C5: an evaluate sets the aggregate to unknown when all six metrics are
\* absent, unknown or unavailable, to another value when one of the five meters
\* has a present value, and in every case to a function of its inputs alone.
C5_UnknownIffNoData ==
    Evaluated =>
        /\ (\A m \in Metrics : Absent(m)) => attr_state = STATE_UNKNOWN
        /\ (\E m \in Meters : ~Absent(m)) => attr_state /= STATE_UNKNOWN
        /\ attr_state = ExpectedAggregate

\* An evaluate set the aggregate to unknown although an earlier one had left a
\* status, and hence another aggregate, behind.
C5_Witness ==
    /\ Evaluated
    /\ attr_state = STATE_UNKNOWN
    /\ \E m \in Metrics : status[m] /= None

\* C6: when at least one metric contributed to an evaluate and every metric it
\* classified low or high has its trigger disabled, the aggregate is ok and the
\* low or high status is recorded all the same.
C6_DisabledTrigger ==
    /\ Evaluated
    /\ \E m \in Metrics : ~Absent(m)
    /\ \A m \in Metrics : ~Absent(m) /\ Breached(m) => options[m] = "False"
    => /\ attr_state = STATE_OK
       /\ \A m \in Metrics : ~Absent(m) /\ OutOfBounds(m) => Breached(m)

\* An evaluate recorded low for a metric whose trigger is disabled and left the
\* aggregate ok.
C6_Witness ==
    /\ Evaluated
    /\ attr_state = STATE_OK
    /\ \E m \in Metrics :
        ~Absent(m) /\ status[m] = STATE_LOW /\ options[m] = "False"

\* C7: when an evaluate classifies a metric with a present value low or high
\* and its trigger is enabled (no option stored, or the option true), the
\* aggregate is problem whatever the other metrics are.
C7_EnabledTrigger ==
    /\ Evaluated
    /\ \E m \in Metrics : ~Absent(m) /\ Breached(m) /\ Enabled(m)
    => attr_state = STATE_PROBLEM

\* A breach of a metric with no stored option made the aggregate problem
\* although a metric checked after it was ok.
C7_Witness ==
    /\ Evaluated
    /\ attr_state = STATE_PROBLEM
    /\ ~Absent(ATTR_MOISTURE) /\ Breached(ATTR_MOISTURE)
    /\ options[ATTR_MOISTURE] = None
    /\ \E n \in Metrics \ {ATTR_MOISTURE} : ~Absent(n) /\ status[n] = STATE_OK

\* C8: illuminance is never low, and after an evaluate with a present
\* illuminance value it is high if value > max and ok if value <= max.
C8_IlluminanceNeverLow ==
    /\ status[ATTR_ILLUMINANCE] /= STATE_LOW
    /\ Evaluated /\ ~Absent(ATTR_ILLUMINANCE) =>
            status[ATTR_ILLUMINANCE] =
                IF Num(ATTR_ILLUMINANCE) > Hi(ATTR_ILLUMINANCE)
                THEN STATE_HIGH ELSE STATE_OK

\* An illuminance value below min came out ok.
C8_Witness ==
    /\ Evaluated
    /\ ~Absent(ATTR_ILLUMINANCE)
    /\ Num(ATTR_ILLUMINANCE) < Lo(ATTR_ILLUMINANCE)
    /\ status[ATTR_ILLUMINANCE] = STATE_OK

\* C9 as stated: after an evaluate with a last_period present and > 0, DLI is
\* low if last_period < min, high if last_period > max, ok otherwise.
C9_FromLastPeriod ==
    /\ Evaluated
    /\ dli.entity
    /\ Parseable(dli.last_period)
    /\ Num(ATTR_DLI) > 0
    => /\ Num(ATTR_DLI) < Lo(ATTR_DLI) => status[ATTR_DLI] = STATE_LOW
       /\ Num(ATTR_DLI) > Hi(ATTR_DLI) => status[ATTR_DLI] = STATE_HIGH
       /\ Lo(ATTR_DLI) <= Num(ATTR_DLI) /\ Num(ATTR_DLI) <= Hi(ATTR_DLI)
            => status[ATTR_DLI] = STATE_OK

\* C9 amended: after an evaluate in which the DLI sensor's own value is not
\* absent, unknown or unavailable and last_period is present and > 0, DLI is
\* low if last_period < min, high if last_period >= min and last_period > max,
\* ok otherwise, whatever the sensor's own value is.
C9_FromLastPeriodWhenKnown ==
    /\ Evaluated
    /\ ~Absent(ATTR_DLI)
    /\ Parseable(dli.last_period)
    /\ Num(ATTR_DLI) > 0
    => status[ATTR_DLI] = IF Num(ATTR_DLI) < Lo(ATTR_DLI) THEN STATE_LOW
                          ELSE IF Num(ATTR_DLI) > Hi(ATTR_DLI) THEN STATE_HIGH
                          ELSE STATE_OK

\* DLI came out low from its last_period although the sensor's own value is
\* not below min.
C9_Witness ==
    /\ Evaluated
    /\ ~Absent(ATTR_DLI)
    /\ Parseable(dli.last_period)
    /\ Num(ATTR_DLI) > 0
    /\ Num(ATTR_DLI) < Lo(ATTR_DLI)
    /\ Float(dli.native_value) >= Lo(ATTR_DLI)
    /\ status[ATTR_DLI] = STATE_LOW

\* C10 as stated: an evaluate that raises because a present reading is not a
\* number leaves the aggregate state and all six statuses as they were before
\* the call.
C10_FailedLeavesIntact ==
    [][/\ last'.op = "update"
       /\ last'.raised
       /\ \E m \in Meters : states[m] = Malformed
       => status' = status /\ attr_state' = attr_state]_vars

\* The request names the plant that is loaded.
KnownDevice(entity_id) == hass_data.plant /\ entity_id = PlantEntityId
\* Every threshold, every meter and the DLI sensor are attached.
AllAttached ==
    /\ \A m \in Metrics : min_threshold[m] /= None /\ max_threshold[m] /= None
    /\ \A m \in Meters : sensor[m]
    /\ dli.entity

\* C11 as stated: an evaluate of a plant that is not complete never ends in an
\* exception, in whatever order add_sensors, add_thresholds, add_dli and
\* update are called.
C11_UnreadyNeverRaises ==
    last.op = "update" /\ ~plant_complete => ~last.raised

\* C12 as stated: the plant is complete only if all twelve thresholds and the
\* DLI sensor are attached, whatever the order and the arguments of
\* add_thresholds, add_sensors and add_dli.
C12_CompleteOnlyIfAttached ==
    plant_complete =>
        /\ \A m \in Metrics : min_threshold[m] /= None /\ max_threshold[m] /= None
        /\ dli.entity

\* C13: while the plant is not complete, extra_state_attributes and
\* websocket_info are the empty dict, and a plant/get_info request for the
\* plant is answered with the empty dict, whatever is attached and however
\* many evaluations have run.
C13_EmptyUntilComplete ==
    ~plant_complete =>
        /\ ExtraStateAttributes = EmptyDict
        /\ WebsocketInfo = [error |-> None, response |-> EmptyDict]
        /\ last.op = "ws_get_info" /\ KnownDevice(last.entity_id)
                => last.reply = SendResult(EmptyDict)

\* A plant that is not complete, with meters attached and a status left by an
\* evaluation, answered a query with the empty dict.
C13_Witness ==
    /\ ~plant_complete
    /\ \E m \in Meters : sensor[m] /\ status[m] /= None
    /\ last.op = "ws_get_info"
    /\ last.reply = SendResult(EmptyDict)

\* C14: once plant_complete is true, every operation leaves it true.
C14_LatchStays == [][plant_complete => plant_complete']_vars

\* add_dli was called with None on a plant whose DLI had been evaluated, and
\* the plant is still complete.
C14_Witness ==
    /\ plant_complete
    /\ last.op = "add_dli"
    /\ ~dli.entity
    /\ status[ATTR_DLI] /= None

C16_Idempotent ==
    last.op = "update" =>
        LET acc == Pass(StartPass, UpdateOrder) IN
        /\ acc.status = status
        /\ acc.raised = last.raised
        /\ ~acc.raised => Aggregate(acc) = attr_state

\* An evaluate that found a breach beside a status kept from an earlier one.
C16_Witness ==
    /\ Evaluated
    /\ attr_state = STATE_PROBLEM
    /\ \E m \in Metrics : ~Absent(m) /\ Breached(m)
    /\ \E m \in Metrics : Absent(m) /\ status[m] = STATE_OK

\* C17: an evaluate that finds a meter reading that is present but not a
\* number raises, and does not assign the aggregate state.
C17_MalformedRaises ==
    [][/\ last'.op = "update"
       /\ \E m \in Meters : sensor[m] /\ states[m] = Malformed
       => last'.raised /\ attr_state' = attr_state]_vars

\* An evaluate raised on a malformed reading and the aggregate state of an
\* earlier evaluate is still there.
C17_Witness ==
    /\ last.op = "update"
    /\ last.raised
    /\ \E m \in Meters : sensor[m] /\ states[m] = Malformed
    /\ attr_state \in {STATE_OK, STATE_PROBLEM}

\* C18: a plant/get_info request that names no known plant is answered with a
\* not-found error, and one that names a known plant that is not complete is
\* answered with the empty result.
C18_NotFoundDistinct ==
    last.op = "ws_get_info" =>
        /\ ~KnownDevice(last.entity_id) =>
                /\ last.reply.type = "error"
                /\ last.reply.code \in {"entity_not_found", "domain_not_found"}
        /\ KnownDevice(last.entity_id) /\ ~plant_complete =>
                last.reply = SendResult(EmptyDict)

\* A request for an unknown entity id was answered with entity_not_found while
\* the plant that is loaded is not complete.
C18_Witness ==
    /\ last.op = "ws_get_info"
    /\ hass_data.plant
    /\ ~plant_complete
    /\ last.entity_id /= PlantEntityId
    /\ last.reply = SendError("entity_not_found")

\* C19 as stated: a plant/get_info request for a complete plant, with all its
\* entities attached, is answered with a result that has for each of the six
\* metrics min, max, icon, unit, sensor id and the current value: the meter's
\* state or "unavailable" when it has none; for DLI "unavailable" when its
\* state is empty or unknown and the numeric state otherwise.
C19_CompleteReturnsEntries ==
    /\ last.op = "ws_get_info"
    /\ KnownDevice(last.entity_id)
    /\ plant_complete
    /\ AllAttached
    => /\ last.reply.type = "result"
       /\ DOMAIN last.reply.result = Metrics
       /\ \A m \in Metrics :
            LET e == last.reply.result[m] IN
            /\ e.min = min_threshold[m] /\ e.max = max_threshold[m]
            /\ e.icon = <<"icon", m>>
            /\ e.unit_of_measurement = <<"unit_of_measurement", m>>
            /\ e.sensor = <<"entity_id", m>>
            /\ m \in Meters =>
                e.current = IF states[m] \in {None, ""} THEN STATE_UNAVAILABLE
                            ELSE states[m]
            /\ m = ATTR_DLI =>
                e.current = IF dli.native_value \in {None, "", STATE_UNKNOWN}
                            THEN STATE_UNAVAILABLE
                            ELSE Float(dli.native_value)

\* C20: the six statuses and the aggregate state change in update() only.
C20_OnlyEvaluatorMutates ==
    [][status' /= status \/ attr_state' /= attr_state => last'.op = "update"]_vars

\* add_thresholds was called on a plant with a breach on record, and the
\* status and the aggregate state are as the evaluation left them.
C20_Witness ==
    /\ last.op = "add_thresholds"
    /\ Breached(ATTR_MOISTURE)
    /\ attr_state = STATE_PROBLEM

\* C21: two plants are independent. After an evaluate of either plant, in any
\* interleaving with the evaluates and the input changes of the other, its
\* statuses and its aggregate are determined by its own readings, thresholds
\* and trigger flags, and an evaluate of one plant leaves every field of the
\* other plant as it was.
C21_Independent ==
    /\ [](Evaluated =>
            /\ attr_state = ExpectedAggregate
            /\ \A m \in Metrics : ~Absent(m) => (Breached(m) <=> OutOfBounds(m)))
    /\ [][last'.op = "update" => other' = other]_vars

\* One plant was evaluated to ok on a reading within its bounds while the
\* other plant stands at problem, evaluated on a reading above its maximum.
C21_Witness ==
    /\ Evaluated
    /\ states[ATTR_MOISTURE] = Str(1)
    /\ status[ATTR_MOISTURE] = STATE_OK
    /\ attr_state = STATE_OK
    /\ other.states[ATTR_MOISTURE] = Str(2)
    /\ other.status[ATTR_MOISTURE] = STATE_HIGH
    /\ other.attr_state = STATE_PROBLEM

\* C22: a binding of a meter to an external sensor changes only in a call of
\* replace_sensor whose meter_entity is a meter listed under a plant and whose
\* new_sensor is empty or null, or an existing entity with an id that starts
\* with "sensor."; the meter named is then bound to new_sensor, to null when
\* new_sensor is empty, and the binding of every other meter stays.
C22_RebindGuarded ==
    [][external' /= external =>
        /\ last'.op = "replace_sensor"
        /\ last'.meter_entity \in hass_data.sensors
        /\ \/ Falsy(last'.new_sensor)
           \/ /\ last'.new_sensor \in ExistingEntities
              /\ DomainPrefix[last'.new_sensor] = "sensor."
        /\ external'[last'.meter_entity] =
                IF Falsy(last'.new_sensor) THEN None ELSE last'.new_sensor
        /\ \A m \in Meters \ {last'.meter_entity} : external'[m] = external[m]]_vars

\* The moisture meter was detached again after it had been bound to an
\* existing sensor, while another meter is still bound.
C22_Witness ==
    /\ last.op = "replace_sensor"
    /\ last.meter_entity = ATTR_MOISTURE
    /\ Falsy(last.new_sensor)
    /\ external[ATTR_MOISTURE] = None
    /\ \E m \in Meters \ {ATTR_MOISTURE} : external[m] = "sensor.ext"

\* C23 as stated: every plant/get_info request is answered with one message, a
\* result or an error, when the domain data is missing, when the entity is
\* unknown, when the plant is not complete, and when the plant is complete,
\* with its entities attached, whatever the state of its DLI sensor.
C23_ExactlyOneReply ==
    /\ last.op = "ws_get_info"
    /\ plant_complete => AllAttached
    => last.reply.type \in {"result", "error"}

\* The orders the six blocks of update() can be put in.
Orders == {order \in [1..6 -> Metrics] : \A i, j \in 1..6 : i /= j => order[i] /= order[j]}

\* C24 as stated: whatever the order of the six blocks of update(), a call
\* leaves the same six statuses and the same aggregate state as with the order
\* moisture, conductivity, temperature, humidity, illuminance, DLI.
C24_OrderIrrelevant ==
    \A order \in Orders : PassResult(order) = PassResult(UpdateOrder)

\* C25 as stated: when every setup so far succeeded, the replace_sensor service
\* and the domain data exist exactly while an entry is loaded.
C25_ExistWhileLoaded ==
    (\A e \in Entries : hass.entry_state[e] /= "setup_error") =>
        LET loaded == \E e \in Entries : hass.entry_state[e] = "loaded" IN
        /\ hass.service <=> loaded
        /\ hass_data.domain <=> loaded

====
